---- MODULE Spec2Model ----
(***************************************************************************)
(* RackLink protocol explorer: the framing codec of utils/protocolUtils    *)
(* (checksum, escaping, hex text conversion, buildPacket, parsePacket)     *)
(* and the calls the user interface makes on it.                           *)
(*                                                                         *)
(* A JavaScript string is modelled as a sequence of string chunks whose    *)
(* concatenation is the string.  Hex text (the result of bytesToHex, the   *)
(* argument of hexToBytes) is a sequence of one-character chunks, so that  *)
(* formatting and parsing work digit by digit as the code does.            *)
(***************************************************************************)
EXTENDS Integers, Sequences, FiniteSets, TLC

VARIABLES
    dataEnvelope,   \* number[] argument handed to the codec
    op,             \* the call that produced the current results
    packet,         \* string returned by buildPacket(dataEnvelope)
    input,          \* PacketParser's input text
    breakdown,      \* parsePacket(input), the memoised breakdown
    prevBreakdown,  \* the breakdown shown before the last edit of input
    edited,         \* <<index, value>> of the byte the last edit replaced
    escaped,        \* number[] returned by escapeData
    unesc,          \* { unescaped, breakdown } returned by unescapeData
    checksumArgs,   \* <<header, length>> handed to calculateChecksum
    checksum,       \* number returned by calculateChecksum
    response,       \* string | null returned by simulateResponse(packet)
    command,        \* PacketBuilder: the selected command code
    subCommand,     \* PacketBuilder: the selected subcommand code
    params,         \* PacketBuilder: the text of the parameter field
    generatedHex,   \* PacketBuilder: the packet text its effect last generated
    effectPending,  \* PacketBuilder: the effect is scheduled and has not run
    isSending,      \* PacketBuilder: a transmission is pending
    activeTab,      \* App: the tab shown; PacketBuilder is mounted under "tools"
    currentBuilderHex, \* App: the packet last passed to handleSendPacket
    sendTimers,     \* pending 400 ms timers, each with the hex it captured
    responseTimers, \* pending 800 ms timers of App, in the order they were set
    activityLog,    \* App: the LogEntry list
    clicks,         \* history: the number of Send clicks accepted
    edits,          \* history: the number of edits of the form and the parser
    sentPackets,    \* history: the packets passed to handleSendPacket, in order
    rxCalls         \* history: the addLog('RX', ...) calls, in order

\* The variables of the codec calls and those of the user interface.
codecVars == <<dataEnvelope, op, packet, input, breakdown, prevBreakdown, edited,
               escaped, unesc, checksumArgs, checksum, response>>

appVars == <<command, subCommand, params, generatedHex, effectPending, isSending,
             activeTab, currentBuilderHex, sendTimers, responseTimers, activityLog,
             clicks, edits, sentPackets, rxCalls>>

vars == <<dataEnvelope, op, packet, input, breakdown, prevBreakdown, edited,
          escaped, unesc, checksumArgs, checksum, response,
          command, subCommand, params, generatedHex, effectPending, isSending,
          activeTab, currentBuilderHex, sendTimers, responseTimers, activityLog,
          clicks, edits, sentPackets, rxCalls>>

----------------------------------------------------------------------------
(* Bounds of the exploration *)

MaxLen == 3

\* Byte values the envelopes are drawn from: the three protected values,
\* the complements 0x00 and 0x02 (also LOGIN and GET) and OUTLET_NAME.
\* (Every single byte 0..255 is an envelope of its own.)
TestBytes == {0, 2, 33, 253, 254, 255}

\* Lengths of the long envelopes (a repeated fill byte): the first length
\* with two hex digits, and the two largest lengths of the contract, whose
\* length bytes are 0xFE and 0xFF.
LongLens == {16, 254, 255}
FillBytes == {0, 255}

\* Values an edit of the parser text writes over a byte.
EditBytes == {128, 253, 254}

AllBytes == 0..255

RECURSIVE SeqsUpTo(_, _)
SeqsUpTo(S, n) ==
    IF n = 0 THEN {<<>>}
    ELSE LET shorter == SeqsUpTo(S, n - 1)
         IN  shorter \cup {Append(s, b) : s \in {t \in shorter : Len(t) = n - 1}, b \in S}

\* Envelopes shaped as requests, [destination, command, subcommand,
\* ...parameters]: the four commands the simulator answers, two registered
\* commands it does not answer (OUTLET_COUNT, EPO) and the unregistered 0x99.
ReqDests == {0, 5}
ReqCommands == {1, 2, 32, 33, 34, 55, 153}
ReqSubs == {1, 2, 16}
ReqParams == {<<>>, <<0>>, <<1>>, <<253>>}

Requests ==
    {<<d, c, s>> \o p : d \in ReqDests, c \in ReqCommands, s \in ReqSubs, p \in ReqParams}
      \cup {<<0, 32, 1, i>> : i \in AllBytes}
      \cup {<<0, 33, 2, i>> : i \in AllBytes}

\* Every byte value in the command position (alone, and followed by GET)
\* and in the subcommand position.
CodeProbes ==
    {<<0, c>> : c \in AllBytes}
      \cup {<<0, c, 2>> : c \in AllBytes}
      \cup {<<0, 1, sc>> : sc \in AllBytes}

Envelopes ==
    SeqsUpTo(TestBytes, MaxLen)
      \cup {<<b>> : b \in AllBytes}
      \cup {[i \in 1..n |-> b] : n \in LongLens, b \in FillBytes}
      \cup Requests
      \cup CodeProbes

\* The envelopes whose packet text is typed and edited by hand.
TypedByHand(envelope) ==
    /\ Len(envelope) <= MaxLen
    /\ Len(envelope) = 1 \/ \A i \in 1..Len(envelope) : envelope[i] \in TestBytes

----------------------------------------------------------------------------
(* JavaScript primitives used by the codec *)

\* The value of an array read past the end.
undefined == -1

At(arr, i) == IF i >= 1 /\ i <= Len(arr) THEN arr[i] ELSE undefined

\* a & b on non-negative operands, bit by bit.
RECURSIVE BitAnd(_, _)
BitAnd(a, b) ==
    IF a = 0 \/ b = 0 THEN 0
    ELSE (a % 2) * (b % 2) + 2 * BitAnd(a \div 2, b \div 2)

\* (~x) & 0xFF: ~x is -x-1 in two's complement, the mask keeps the low byte.
NotAnd255(x) == (-x - 1) % 256

Digits16 == <<"0", "1", "2", "3", "4", "5", "6", "7", "8", "9",
              "a", "b", "c", "d", "e", "f">>

\* Number.prototype.toString(16) of a non-negative integer.
RECURSIVE toString16(_)
toString16(n) ==
    IF n < 16 THEN <<Digits16[n + 1]>>
    ELSE Append(toString16(n \div 16), Digits16[(n % 16) + 1])

\* Decimal rendering of a non-negative integer in a template literal.
RECURSIVE toString10(_)
toString10(n) ==
    IF n < 10 THEN <<Digits16[n + 1]>>
    ELSE Append(toString10(n \div 10), Digits16[(n % 10) + 1])

RECURSIVE padStart(_, _, _)
padStart(s, targetLength, padChar) ==
    IF Len(s) >= targetLength THEN s
    ELSE padStart(<<padChar>> \o s, targetLength, padChar)

UpperChar(c) ==
    CASE c = "a" -> "A" [] c = "b" -> "B" [] c = "c" -> "C"
      [] c = "d" -> "D" [] c = "e" -> "E" [] c = "f" -> "F"
      [] OTHER -> c

toUpperCase(s) == [i \in 1..Len(s) |-> UpperChar(s[i])]

\* The characters kept by the regular expression /[^0-9a-fA-F]/g.
IsHexChar(c) ==
    c \in {"0", "1", "2", "3", "4", "5", "6", "7", "8", "9",
           "a", "b", "c", "d", "e", "f", "A", "B", "C", "D", "E", "F"}

HexValue(c) ==
    CASE c = "0" -> 0 [] c = "1" -> 1 [] c = "2" -> 2 [] c = "3" -> 3
      [] c = "4" -> 4 [] c = "5" -> 5 [] c = "6" -> 6 [] c = "7" -> 7
      [] c = "8" -> 8 [] c = "9" -> 9
      [] c \in {"a", "A"} -> 10 [] c \in {"b", "B"} -> 11
      [] c \in {"c", "C"} -> 12 [] c \in {"d", "D"} -> 13
      [] c \in {"e", "E"} -> 14 [] c \in {"f", "F"} -> 15

\* parseInt(s, 16) of a non-empty string of hex digits.
RECURSIVE parseInt16(_)
parseInt16(s) ==
    IF Len(s) = 1 THEN HexValue(s[1])
    ELSE 16 * parseInt16(SubSeq(s, 1, Len(s) - 1)) + HexValue(s[Len(s)])

\* String.prototype.substr(start, length), start counted from 0.
substr(s, start, length) ==
    SubSeq(s, start + 1, IF start + length > Len(s) THEN Len(s) ELSE start + length)

\* Array.prototype.slice(begin, end), indices counted from 0, end >= 0.
slice(arr, begin, end) == SubSeq(arr, begin + 1, end)

\* Array.prototype.join(sep) of an array of strings, split in halves.
RECURSIVE joinRange(_, _, _, _)
joinRange(parts, sep, lo, hi) ==
    IF lo > hi THEN <<>>
    ELSE IF lo = hi THEN parts[lo]
    ELSE LET mid == (lo + hi) \div 2
         IN  joinRange(parts, sep, lo, mid) \o sep \o joinRange(parts, sep, mid + 1, hi)

join(parts, sep) == joinRange(parts, sep, 1, Len(parts))

----------------------------------------------------------------------------
(* types: the command and subcommand tables *)

CommandCode ==
    [PING |-> 1, LOGIN |-> 2, NACK |-> 16, POWER_OUTLETS |-> 32,
     OUTLET_NAME |-> 33, OUTLET_COUNT |-> 34, ENERGY_MGMT |-> 35,
     DRY_CONTACTS |-> 48, CONTACT_NAME |-> 49, CONTACT_COUNT |-> 50,
     SEQUENCE |-> 54, EPO |-> 55, LOG_ALERTS |-> 64, STATUS_CHANGE |-> 65,
     SENSORS_START |-> 80, SENSORS_END |-> 97, THRESHOLDS_START |-> 112,
     THRESHOLDS_END |-> 119, READ_LOG |-> 128, LOG_COUNT |-> 129,
     CLEAR_LOG |-> 130, PRODUCT_PART |-> 144, PRODUCT_RATING |-> 145,
     PRODUCT_SURGE |-> 147, PRODUCT_IP |-> 148, PRODUCT_MAC |-> 149]

SubCommand ==
    [SET |-> 1, GET |-> 2, RESPONSE |-> 16, STATUS_UPDATE |-> 18,
     LOG_UPDATE |-> 48]

\* ReverseLookup without the fallback: enumObject[code] alone.
ReverseLookupNoFallback(enumObject, code, fallback) ==
    IF \E name \in DOMAIN enumObject : enumObject[name] = code
    THEN CHOOSE name \in DOMAIN enumObject : enumObject[name] = code
    ELSE "undefined"

\* The reverse mapping of a numeric enum: enumObject[code] || fallback.
ReverseLookup(enumObject, code, fallback) ==
    IF \E name \in DOMAIN enumObject : enumObject[name] = code
    THEN CHOOSE name \in DOMAIN enumObject : enumObject[name] = code
    ELSE fallback

----------------------------------------------------------------------------
(* utils/protocolUtils *)

PROTECTED_VALUES == [HEADER |-> 254, TAIL |-> 255, ESCAPE |-> 253]

\* Object.values(PROTECTED_VALUES).includes(byte)
IsProtected(byte) == \E k \in DOMAIN PROTECTED_VALUES : PROTECTED_VALUES[k] = byte

\* What the loop "for (const byte of data) sum += byte" adds for the bytes
\* lo..hi of data; the range is split in halves to keep the evaluation
\* shallow.
RECURSIVE SumBytes(_, _, _)
SumBytes(data, lo, hi) ==
    IF lo > hi THEN 0
    ELSE IF lo = hi THEN data[lo]
    ELSE LET mid == (lo + hi) \div 2
         IN  SumBytes(data, lo, mid) + SumBytes(data, mid + 1, hi)

\* calculateChecksum with the mask 0xFF in place of 0x7F.
calculateChecksumMask255(header, length, data) ==
    BitAnd(header + length + SumBytes(data, 1, Len(data)), 255)

calculateChecksum(header, length, data) ==
    LET sum == header + length + SumBytes(data, 1, Len(data))
    IN  BitAnd(sum, 127)

\* EscapeByte with ESCAPE itself left out of the protected values.
EscapeByteNoFD(byte) ==
    IF byte \in {PROTECTED_VALUES.HEADER, PROTECTED_VALUES.TAIL}
    THEN <<PROTECTED_VALUES.ESCAPE, NotAnd255(byte)>>
    ELSE <<byte>>

\* EscapeByte pushing the protected byte itself after ESCAPE.
EscapeByteNoComplement(byte) ==
    IF IsProtected(byte)
    THEN <<PROTECTED_VALUES.ESCAPE, byte>>
    ELSE <<byte>>

\* What one iteration of escapeData's loop pushes.
EscapeByte(byte) ==
    IF IsProtected(byte)
    THEN <<PROTECTED_VALUES.ESCAPE, NotAnd255(byte)>>
    ELSE <<byte>>

escapeData(data) ==
    joinRange([i \in 1..Len(data) |-> EscapeByte(data[i])], <<>>, 1, Len(data))

\* UnescapeStep without the extra "i++" of the escape branch.
UnescapeStepNoSkip(data, st) ==
    IF ~(st.i < Len(data)) THEN st
    ELSE IF data[st.i + 1] = PROTECTED_VALUES.ESCAPE /\ st.i + 1 < Len(data)
         THEN [i |-> st.i + 1,
               unescaped |-> Append(st.unescaped, NotAnd255(data[st.i + 2])),
               isEscaped |-> Append(st.isEscaped, TRUE)]
         ELSE [i |-> st.i + 1,
               unescaped |-> Append(st.unescaped, data[st.i + 1]),
               isEscaped |-> Append(st.isEscaped, FALSE)]

\* UnescapeStep dropping an ESCAPE that has no following byte.
UnescapeStepDropTrailing(data, st) ==
    IF ~(st.i < Len(data)) THEN st
    ELSE IF data[st.i + 1] = PROTECTED_VALUES.ESCAPE /\ st.i + 1 < Len(data)
         THEN [i |-> st.i + 2,
               unescaped |-> Append(st.unescaped, NotAnd255(data[st.i + 2])),
               isEscaped |-> Append(st.isEscaped, TRUE)]
         ELSE IF data[st.i + 1] = PROTECTED_VALUES.ESCAPE
         THEN [st EXCEPT !.i = st.i + 1]
         ELSE [i |-> st.i + 1,
               unescaped |-> Append(st.unescaped, data[st.i + 1]),
               isEscaped |-> Append(st.isEscaped, FALSE)]

\* UnescapeStep marking every output byte as copied literally.
UnescapeStepUnmarked(data, st) ==
    IF ~(st.i < Len(data)) THEN st
    ELSE IF data[st.i + 1] = PROTECTED_VALUES.ESCAPE /\ st.i + 1 < Len(data)
         THEN [i |-> st.i + 2,
               unescaped |-> Append(st.unescaped, NotAnd255(data[st.i + 2])),
               isEscaped |-> Append(st.isEscaped, FALSE)]
         ELSE [i |-> st.i + 1,
               unescaped |-> Append(st.unescaped, data[st.i + 1]),
               isEscaped |-> Append(st.isEscaped, FALSE)]

\* One iteration of unescapeData's loop, condition included, on the loop
\* state st = [i, unescaped, isEscaped] (i counted from 0 as in the code).
UnescapeStep(data, st) ==
    IF ~(st.i < Len(data)) THEN st
    ELSE IF data[st.i + 1] = PROTECTED_VALUES.ESCAPE /\ st.i + 1 < Len(data)
         THEN [i |-> st.i + 2,
               unescaped |-> Append(st.unescaped, NotAnd255(data[st.i + 2])),
               isEscaped |-> Append(st.isEscaped, TRUE)]
         ELSE [i |-> st.i + 1,
               unescaped |-> Append(st.unescaped, data[st.i + 1]),
               isEscaped |-> Append(st.isEscaped, FALSE)]

\* Up to k iterations of the loop, split in halves to keep the evaluation
\* shallow; the second half is skipped once the loop condition is false.
RECURSIVE UnescapeLoop(_, _, _)
UnescapeLoop(data, st, k) ==
    IF k = 0 THEN st
    ELSE IF k = 1 THEN UnescapeStep(data, st)
    ELSE LET half == UnescapeLoop(data, st, k \div 2)
         IN  IF ~(half.i < Len(data)) THEN half
             ELSE UnescapeLoop(data, half, k - (k \div 2))

\* The loop ends after at most data.length iterations.
unescapeData(data) ==
    LET end == UnescapeLoop(data, [i |-> 0, unescaped |-> <<>>, isEscaped |-> <<>>],
                            Len(data))
    IN  [unescaped |-> end.unescaped, breakdown |-> end.isEscaped]

hexToBytes(hex) ==
    LET cleanHex == SelectSeq(hex, IsHexChar)
    IN  [k \in 1..((Len(cleanHex) + 1) \div 2) |->
            parseInt16(substr(cleanHex, 2 * (k - 1), 2))]

\* bytesToHex without padStart: a byte below 0x10 gets one digit.
bytesToHexNoPad(bytes) ==
    join([i \in 1..Len(bytes) |-> toUpperCase(toString16(bytes[i]))], <<" ">>)

bytesToHex(bytes) ==
    join([i \in 1..Len(bytes) |->
            toUpperCase(padStart(toString16(bytes[i]), 2, "0"))], <<" ">>)

\* buildPacket with the length taken after escaping.
buildPacketEscapedLength(envelope) ==
    LET header == PROTECTED_VALUES.HEADER
        tail == PROTECTED_VALUES.TAIL
        escapedEnvelope == escapeData(envelope)
        length == Len(escapedEnvelope)
        cksum == calculateChecksum(header, length, envelope)
        packetBytes == <<header, length>> \o escapedEnvelope \o <<cksum, tail>>
    IN  bytesToHex(packetBytes)

buildPacket(envelope) ==
    LET header == PROTECTED_VALUES.HEADER
        tail == PROTECTED_VALUES.TAIL
        length == Len(envelope)
        cksum == calculateChecksum(header, length, envelope)
        escapedEnvelope == escapeData(envelope)
        packetBytes == <<header, length>> \o escapedEnvelope \o <<cksum, tail>>
    IN  bytesToHex(packetBytes)

\* One PacketBreakdown object.
Entry(label, hex, description) ==
    [label |-> label, hex |-> hex, description |-> description]

\* TooShort with the threshold 4.
TooShortBelow4(bytes) == Len(bytes) < 4

\* The guard of parsePacket and simulateResponse: bytes.length < 5.
TooShort(bytes) == Len(bytes) < 5

\* bytes.slice(2, bytes.length - 2)
EnvelopeWithEscapes(bytes) == slice(bytes, 2, Len(bytes) - 2)

HeaderEntry(bytes) ==
    Entry("Header", bytesToHex(<<bytes[1]>>),
          IF bytes[1] = PROTECTED_VALUES.HEADER
          THEN <<"Valid Start Character (0xFE)">>
          ELSE <<"INVALID Header">>)

LengthEntry(bytes) ==
    LET rawLength == bytes[2]
    IN  Entry("Length", bytesToHex(<<bytes[2]>>),
              <<"Payload Data Length: ">> \o toString10(rawLength) \o <<" bytes">>)

EnvelopeEntry(bytes) ==
    LET envelopeWithEscapes == EnvelopeWithEscapes(bytes)
        unescaped == unescapeData(envelopeWithEscapes).unescaped
    IN  Entry("Data Envelope", bytesToHex(envelopeWithEscapes),
              <<"Unescaped Payload: [">> \o bytesToHex(unescaped) \o <<"]">>)

\* FieldEntries demanding a subcommand byte before it shows anything.
FieldEntriesNeed3(unescaped) ==
    LET dest == At(unescaped, 1)
        cmd == At(unescaped, 2)
        sub == At(unescaped, 3)
        cmdName == ReverseLookup(CommandCode, cmd, "Unknown Command")
        subName == ReverseLookup(SubCommand, sub, "Param/Data")
    IN  IF Len(unescaped) >= 3
        THEN <<Entry("Destination", bytesToHex(<<dest>>),
                     IF dest = 0 THEN <<"Broadcast/Device">>
                     ELSE <<"Target ">> \o toString10(dest)),
               Entry("Command", bytesToHex(<<cmd>>),
                     <<cmdName, " (0x">> \o padStart(toString16(cmd), 2, "0") \o <<")">>),
               Entry("Subcommand/Param", bytesToHex(<<sub>>), <<subName>>)>>
        ELSE <<>>

\* The block "if (unescaped.length >= 2) { ... }".
FieldEntries(unescaped) ==
    LET dest == At(unescaped, 1)
        cmd == At(unescaped, 2)
        sub == At(unescaped, 3)
        cmdName == ReverseLookup(CommandCode, cmd, "Unknown Command")
        subName == ReverseLookup(SubCommand, sub, "Param/Data")
        destEntry ==
            Entry("Destination", bytesToHex(<<dest>>),
                  IF dest = 0 THEN <<"Broadcast/Device">>
                  ELSE <<"Target ">> \o toString10(dest))
        cmdEntry ==
            Entry("Command", bytesToHex(<<cmd>>),
                  <<cmdName, " (0x">> \o padStart(toString16(cmd), 2, "0") \o <<")">>)
        subEntry ==
            Entry("Subcommand/Param", bytesToHex(<<sub>>), <<subName>>)
    IN  IF Len(unescaped) >= 2
        THEN <<destEntry, cmdEntry>> \o (IF sub # undefined THEN <<subEntry>> ELSE <<>>)
        ELSE <<>>

\* ChecksumEntry recomputing from the constant 0xFE, not the received header.
ChecksumEntryFixedHeader(bytes) ==
    LET rawLength == bytes[2]
        unescaped == unescapeData(EnvelopeWithEscapes(bytes)).unescaped
        cksum == bytes[Len(bytes) - 1]
        expectedChecksum == calculateChecksum(PROTECTED_VALUES.HEADER, rawLength, unescaped)
    IN  Entry("Checksum", bytesToHex(<<cksum>>),
              IF cksum = expectedChecksum THEN <<"Valid Checksum">>
              ELSE <<"Invalid! Expected 0x">> \o toUpperCase(toString16(expectedChecksum)))

ChecksumEntry(bytes) ==
    LET rawLength == bytes[2]
        unescaped == unescapeData(EnvelopeWithEscapes(bytes)).unescaped
        cksum == bytes[Len(bytes) - 1]
        expectedChecksum == calculateChecksum(bytes[1], rawLength, unescaped)
    IN  Entry("Checksum", bytesToHex(<<cksum>>),
              IF cksum = expectedChecksum THEN <<"Valid Checksum">>
              ELSE <<"Invalid! Expected 0x">> \o toUpperCase(toString16(expectedChecksum)))

\* TailEntry comparing the last byte with the header character.
TailEntryAsHeader(bytes) ==
    LET tail == bytes[Len(bytes)]
    IN  Entry("Tail", bytesToHex(<<tail>>),
              IF tail = PROTECTED_VALUES.HEADER
              THEN <<"Valid End Character (0xFF)">>
              ELSE <<"INVALID Tail">>)

TailEntry(bytes) ==
    LET tail == bytes[Len(bytes)]
    IN  Entry("Tail", bytesToHex(<<tail>>),
              IF tail = PROTECTED_VALUES.TAIL
              THEN <<"Valid End Character (0xFF)">>
              ELSE <<"INVALID Tail">>)

\* PushEntries giving up after the Header entry when the header is invalid.
PushEntriesStrictHeader(bytes) ==
    IF bytes[1] # PROTECTED_VALUES.HEADER THEN <<HeaderEntry(bytes)>>
    ELSE <<HeaderEntry(bytes), LengthEntry(bytes), EnvelopeEntry(bytes)>>
           \o FieldEntries(unescapeData(EnvelopeWithEscapes(bytes)).unescaped)
           \o <<ChecksumEntry(bytes), TailEntry(bytes)>>

\* parsePacket after the length guard: the entries pushed, in order.
PushEntries(bytes) ==
    <<HeaderEntry(bytes), LengthEntry(bytes), EnvelopeEntry(bytes)>>
      \o FieldEntries(unescapeData(EnvelopeWithEscapes(bytes)).unescaped)
      \o <<ChecksumEntry(bytes), TailEntry(bytes)>>

parsePacket(hex) ==
    LET bytes == hexToBytes(hex)
    IN  IF TooShort(bytes) THEN <<>> ELSE PushEntries(bytes)

\* The letters and digits, in char code order from 65, 97 and 48.
UpperLetters ==
    <<"A", "B", "C", "D", "E", "F", "G", "H", "I", "J", "K", "L", "M",
      "N", "O", "P", "Q", "R", "S", "T", "U", "V", "W", "X", "Y", "Z">>

LowerLetters ==
    <<"a", "b", "c", "d", "e", "f", "g", "h", "i", "j", "k", "l", "m",
      "n", "o", "p", "q", "r", "s", "t", "u", "v", "w", "x", "y", "z">>

DecimalDigits == <<"0", "1", "2", "3", "4", "5", "6", "7", "8", "9">>

IndexIn(chars, char) == CHOOSE k \in 1..Len(chars) : chars[k] = char

\* char.charCodeAt(0) of a letter, a digit, a space, a vertical bar or the
\* euro sign (one character, written here by its code point U+20AC).
charCodeAt(char) ==
    CASE char = " " -> 32
      [] char = "|" -> 124
      [] char = "U+20AC" -> 8364
      [] \E k \in 1..10 : DecimalDigits[k] = char -> 47 + IndexIn(DecimalDigits, char)
      [] \E k \in 1..26 : UpperLetters[k] = char -> 64 + IndexIn(UpperLetters, char)
      [] \E k \in 1..26 : LowerLetters[k] = char -> 96 + IndexIn(LowerLetters, char)

asciiToBytes(str) == [k \in 1..Len(str) |-> charCodeAt(str[k])]

\* The string "Outlet 1", character by character.
OutletName == <<"O", "u", "t", "l", "e", "t", " ", "1">>

\* The null returned by simulateResponse (no string buildPacket returns).
null == <<"null">>

\* x || fallback on a number or undefined: 0 and undefined are falsy.
OrElse(x, fallback) == IF x = undefined \/ x = 0 THEN fallback ELSE x

\* EnvelopeTooShort with the threshold 2.
EnvelopeTooShortBelow2(unescaped) == Len(unescaped) < 2

\* The second guard of simulateResponse: unescaped.length < 3.
EnvelopeTooShort(unescaped) == Len(unescaped) < 3

\* InitialResponse echoing a GET subcommand.
InitialResponseGet(cmd) == <<0, cmd, SubCommand.GET>>

\* let responseEnvelope = [0x00, cmd, SubCommand.RESPONSE]
InitialResponse(cmd) == <<0, cmd, SubCommand.RESPONSE>>

\* LoginCase pushing the flag 0x00.
LoginCaseFailure(responseEnvelope) == Append(responseEnvelope, 0)

\* case CommandCode.LOGIN
LoginCase(responseEnvelope) == Append(responseEnvelope, 1)

\* case CommandCode.OUTLET_NAME
OutletNameCase(responseEnvelope, unescaped) ==
    IF At(unescaped, 3) = SubCommand.GET
    THEN Append(responseEnvelope, OrElse(At(unescaped, 4), 1)) \o asciiToBytes(OutletName)
    ELSE responseEnvelope

\* case CommandCode.POWER_OUTLETS
PowerOutletsCase(responseEnvelope, unescaped) ==
    Append(Append(responseEnvelope, OrElse(At(unescaped, 4), 1)), 1)

\* case CommandCode.PING
PingCase(responseEnvelope) == <<0, CommandCode.PING, SubCommand.RESPONSE>>

\* DefaultCase leaving the switch with a break.
DefaultCaseBreak(responseEnvelope) == responseEnvelope

\* default: return null (no envelope is built).
DefaultCase(responseEnvelope) == <<undefined>>

\* The switch of simulateResponse: the response envelope handed to
\* buildPacket, or <<undefined>> when the switch returns null.
ResponseEnvelope(unescaped) ==
    LET cmd == At(unescaped, 2)
        responseEnvelope == InitialResponse(cmd)
    IN  CASE cmd = CommandCode.LOGIN -> LoginCase(responseEnvelope)
          [] cmd = CommandCode.OUTLET_NAME -> OutletNameCase(responseEnvelope, unescaped)
          [] cmd = CommandCode.POWER_OUTLETS -> PowerOutletsCase(responseEnvelope, unescaped)
          [] cmd = CommandCode.PING -> PingCase(responseEnvelope)
          [] OTHER -> DefaultCase(responseEnvelope)

\* simulateResponse refusing a request whose header, checksum or tail is
\* not the one of a valid frame.
simulateResponseValidating(requestHex) ==
    LET bytes == hexToBytes(requestHex)
        unescaped == unescapeData(EnvelopeWithEscapes(bytes)).unescaped
    IN  IF TooShort(bytes) THEN null
        ELSE IF bytes[1] # PROTECTED_VALUES.HEADER THEN null
        ELSE IF bytes[Len(bytes)] # PROTECTED_VALUES.TAIL THEN null
        ELSE IF bytes[Len(bytes) - 1] # calculateChecksum(bytes[1], bytes[2], unescaped)
        THEN null
        ELSE IF EnvelopeTooShort(unescaped) THEN null
        ELSE IF ResponseEnvelope(unescaped) = <<undefined>> THEN null
        ELSE buildPacket(ResponseEnvelope(unescaped))

simulateResponse(requestHex) ==
    LET bytes == hexToBytes(requestHex)
        unescaped == unescapeData(EnvelopeWithEscapes(bytes)).unescaped
    IN  IF TooShort(bytes) THEN null
        ELSE IF EnvelopeTooShort(unescaped) THEN null
        ELSE IF ResponseEnvelope(unescaped) = <<undefined>> THEN null
        ELSE buildPacket(ResponseEnvelope(unescaped))

----------------------------------------------------------------------------
(* The calls made on the codec *)

\* The value of a result no call has produced yet.
None == <<"none">>

\* PacketBuilder's parameter loop: the hex digits of the field, two by two.
ParamBytes(text) ==
    LET cleanParams == SelectSeq(text, IsHexChar)
    IN  [k \in 1..((Len(cleanParams) + 1) \div 2) |->
            parseInt16(substr(cleanParams, 2 * (k - 1), 2))]

\* The credentials used when the field is empty: "user|password".
DefaultLogin ==
    <<"u", "s", "e", "r", "|", "p", "a", "s", "s", "w", "o", "r", "d">>

\* The dataEnvelope PacketBuilder's effect composes from the form.
FormEnvelope(cmd, sub, text) ==
    IF cmd = CommandCode.LOGIN
    THEN <<0, cmd, sub>> \o asciiToBytes(IF text = <<>> THEN DefaultLogin ELSE text)
    ELSE IF text # <<>> THEN <<0, cmd, sub>> \o ParamBytes(text)
    ELSE <<0, cmd, sub>>

\* PacketBuilder at the first commit of its mount: the useState values,
\* generatedHex still '', and the effect scheduled.
BuilderMounted ==
    /\ command = CommandCode.OUTLET_NAME
    /\ subCommand = SubCommand.GET
    /\ params = <<"0", "1">>
    /\ generatedHex = <<>>
    /\ effectPending = TRUE
    /\ isSending = FALSE

\* The user interface as mounted: the tools tab with PacketBuilder,
\* nothing sent, no timer pending, an empty activity log.
Mounted ==
    /\ BuilderMounted
    /\ activeTab = "tools"
    /\ currentBuilderHex = bytesToHex(<<254, 3, 0, 33, 2, 36, 255>>)
    /\ sendTimers = <<>>
    /\ responseTimers = <<>>
    /\ activityLog = <<>>
    /\ clicks = 0
    /\ edits = 0
    /\ sentPackets = <<>>
    /\ rxCalls = <<>>

\* PacketParser as mounted: App's initial parserInput and its breakdown.
ParserMounted ==
    /\ input = bytesToHex(<<254, 3, 0, 33, 2, 36, 255>>)
    /\ breakdown = parsePacket(input)

\* No call has been made on the codec by hand yet.
NoCallYet ==
    /\ op = "idle"
    /\ packet = None
    /\ prevBreakdown = None
    /\ edited = None
    /\ escaped = None
    /\ unesc = None
    /\ checksumArgs = None
    /\ checksum = None
    /\ response = None

\* The interface as mounted, and an envelope chosen for the calls.
Init ==
    /\ dataEnvelope \in Envelopes
    /\ NoCallYet
    /\ ParserMounted
    /\ Mounted

\* buildPacket(dataEnvelope) called on the chosen envelope.
CallBuildPacket ==
    /\ op = "idle"
    /\ packet' = buildPacket(dataEnvelope)
    /\ op' = "built"
    /\ UNCHANGED <<response, dataEnvelope, input, breakdown, prevBreakdown, edited,
                   escaped, unesc, checksumArgs, checksum>>
    /\ UNCHANGED appVars

\* The sent packet's log line is clicked: parserInput := log.hex, and
\* PacketParser recomputes parsePacket(input).
InspectPacket ==
    /\ op = "built"
    /\ input' = packet
    /\ breakdown' = parsePacket(packet)
    /\ op' = "parsed"
    /\ UNCHANGED <<response, dataEnvelope, packet, prevBreakdown, edited,
                   escaped, unesc, checksumArgs, checksum>>
    /\ UNCHANGED appVars

\* The packet text is typed into the parser's textarea: after the k-th
\* character the input is the k-character prefix, and it is parsed.
\* (Only the short packets over the test bytes are typed and edited by hand.)
TypePrefix ==
    /\ op = "built"
    /\ TypedByHand(dataEnvelope)
    /\ \E k \in 0..(Len(packet) - 1) :
          /\ input' = SubSeq(packet, 1, k)
          /\ breakdown' = parsePacket(input')
    /\ op' = "typed"
    /\ UNCHANGED <<response, dataEnvelope, packet, prevBreakdown, edited,
                   escaped, unesc, checksumArgs, checksum>>
    /\ UNCHANGED appVars

\* One byte of the inspected packet text is overwritten in the textarea,
\* and the new text is parsed.
EditByte ==
    /\ op = "parsed"
    /\ TypedByHand(dataEnvelope)
    /\ \E i \in 1..Len(hexToBytes(input)), v \in EditBytes :
          LET bytes == hexToBytes(input)
              text == bytesToHex([bytes EXCEPT ![i] = v])
          IN  /\ v # bytes[i]
              /\ edited' = <<i, v>>
              /\ input' = text
              /\ prevBreakdown' = breakdown
              /\ breakdown' = parsePacket(input')
    /\ op' = "edited"
    /\ UNCHANGED <<response, dataEnvelope, packet, escaped, unesc, checksumArgs, checksum>>
    /\ UNCHANGED appVars

CallEscapeData ==
    /\ op = "idle"
    /\ escaped' = escapeData(dataEnvelope)
    /\ op' = "escaped"
    /\ UNCHANGED <<response, dataEnvelope, packet, input, breakdown, prevBreakdown,
                   edited, unesc, checksumArgs, checksum>>
    /\ UNCHANGED appVars

\* unescapeData applied to the result of escapeData.
CallUnescapeEscaped ==
    /\ op = "escaped"
    /\ unesc' = unescapeData(escaped)
    /\ op' = "roundtrip"
    /\ UNCHANGED <<response, dataEnvelope, packet, input, breakdown, prevBreakdown,
                   edited, escaped, checksumArgs, checksum>>
    /\ UNCHANGED appVars

\* unescapeData applied to arbitrary received bytes.
CallUnescapeData ==
    /\ op = "idle"
    /\ unesc' = unescapeData(dataEnvelope)
    /\ op' = "unescaped"
    /\ UNCHANGED <<response, dataEnvelope, packet, input, breakdown, prevBreakdown,
                   edited, escaped, checksumArgs, checksum>>
    /\ UNCHANGED appVars

CallCalculateChecksum ==
    /\ op = "idle"
    /\ \E header \in {0, PROTECTED_VALUES.HEADER, PROTECTED_VALUES.TAIL},
          length \in {0, Len(dataEnvelope), 255} :
          /\ checksumArgs' = <<header, length>>
          /\ checksum' = calculateChecksum(header, length, dataEnvelope)
    /\ op' = "checksum"
    /\ UNCHANGED <<response, dataEnvelope, packet, input, breakdown, prevBreakdown,
                   edited, escaped, unesc>>
    /\ UNCHANGED appVars

\* simulateResponse(hex) called on the built packet.
CallSimulateResponse ==
    /\ op = "built"
    /\ response' = simulateResponse(packet)
    /\ op' = "sent"
    /\ UNCHANGED <<dataEnvelope, packet, input, breakdown, prevBreakdown,
                   edited, escaped, unesc, checksumArgs, checksum>>
    /\ UNCHANGED appVars

\* simulateResponse(hex) on the request as edited in transit: one of its
\* header, length, checksum and tail bytes is overwritten.
CallSimulateResponseTampered ==
    /\ op = "edited"
    /\ edited[1] \in {1, 2, Len(hexToBytes(input)) - 1, Len(hexToBytes(input))}
    /\ response' = simulateResponse(input)
    /\ op' = "answered"
    /\ UNCHANGED <<dataEnvelope, packet, input, breakdown, prevBreakdown,
                   edited, escaped, unesc, checksumArgs, checksum>>
    /\ UNCHANGED appVars

Next ==
    \/ CallSimulateResponse
    \/ CallSimulateResponseTampered
    \/ CallBuildPacket
    \/ InspectPacket
    \/ TypePrefix
    \/ EditByte
    \/ CallEscapeData
    \/ CallUnescapeEscaped
    \/ CallUnescapeData
    \/ CallCalculateChecksum

Spec == Init /\ [][Next]_vars

----------------------------------------------------------------------------
(* App and PacketBuilder: the form, the Send button, the two timers and the
   activity log *)

\* The most Send clicks accepted in one run, and the most edits of the
\* form and of the parser text.
MaxSends == 2
MaxEdits == 2

\* The form values tried: the initial command OUTLET_NAME, whose field is
\* hex digits, and LOGIN, whose field is credentials; two of the
\* subcommands; the initial field text and a euro sign.
FormCommands == {CommandCode.LOGIN, CommandCode.OUTLET_NAME}
FormSubs == {SubCommand.SET, SubCommand.GET}
ParamTexts == {<<"0", "1">>, <<"U+20AC">>}

\* The text typed into the parser's textarea: a PING request.
ParserTexts == {bytesToHex(<<254, 3, 0, 1, 2, 4, 255>>)}

\* The tabs of the navigation bar other than the tools tab.
OtherTabs == {"realworld", "assistant"}

\* The LogEntry addLog makes (its random id and its timestamp are left out).
NewEntry(direction, hex) ==
    LET bytes == hexToBytes(hex)
        unescaped == unescapeData(slice(bytes, 2, Len(bytes) - 2)).unescaped
        cmd == At(unescaped, 2)
        cmdName == ReverseLookup(CommandCode, cmd, "Unknown")
    IN  [direction |-> direction, hex |-> hex, summary |-> cmdName]

\* setActivityLog(prev => [...prev, newEntry])
addLog(prev, direction, hex) == Append(prev, NewEntry(direction, hex))

\* The interface as mounted; no call is made on the codec by hand.
AppInit ==
    /\ dataEnvelope = <<>>
    /\ NoCallYet
    /\ ParserMounted
    /\ Mounted

\* The calls of the codec harness do not happen while the interface runs.
CodecIdle ==
    UNCHANGED <<dataEnvelope, op, packet, prevBreakdown, edited, escaped, unesc,
                checksumArgs, checksum, response>>

\* A command is chosen in the select: setCommand, which schedules the
\* effect; generatedHex keeps its value until the effect runs.
SelectCommand ==
    /\ activeTab = "tools"
    /\ edits < MaxEdits
    /\ \E c \in FormCommands \ {command} : command' = c
    /\ effectPending' = TRUE
    /\ edits' = edits + 1
    /\ UNCHANGED <<subCommand, params, generatedHex, isSending, activeTab,
                   currentBuilderHex, sendTimers, responseTimers, activityLog,
                   clicks, sentPackets, rxCalls, input, breakdown>>
    /\ CodecIdle

\* A subcommand is chosen in the select: setSubCommand.
SelectSubCommand ==
    /\ activeTab = "tools"
    /\ edits < MaxEdits
    /\ \E sc \in FormSubs \ {subCommand} : subCommand' = sc
    /\ effectPending' = TRUE
    /\ edits' = edits + 1
    /\ UNCHANGED <<command, params, generatedHex, isSending, activeTab,
                   currentBuilderHex, sendTimers, responseTimers, activityLog,
                   clicks, sentPackets, rxCalls, input, breakdown>>
    /\ CodecIdle

\* The parameter field is overwritten: setParams.
TypeParams ==
    /\ activeTab = "tools"
    /\ edits < MaxEdits
    /\ \E text \in ParamTexts \ {params} : params' = text
    /\ effectPending' = TRUE
    /\ edits' = edits + 1
    /\ UNCHANGED <<command, subCommand, generatedHex, isSending, activeTab,
                   currentBuilderHex, sendTimers, responseTimers, activityLog,
                   clicks, sentPackets, rxCalls, input, breakdown>>
    /\ CodecIdle

\* PacketBuilder's effect runs, after the commit that scheduled it:
\* setGeneratedHex(buildPacket(dataEnvelope)).
BuilderEffect ==
    /\ activeTab = "tools"
    /\ effectPending
    /\ generatedHex' = buildPacket(FormEnvelope(command, subCommand, params))
    /\ effectPending' = FALSE
    /\ UNCHANGED <<command, subCommand, params, isSending, activeTab,
                   currentBuilderHex, sendTimers, responseTimers, activityLog,
                   clicks, edits, sentPackets, rxCalls, input, breakdown>>
    /\ CodecIdle

\* The parser's textarea is overwritten: setParserInput, and PacketParser
\* renders parsePacket of the new input.
TypeParserInput ==
    /\ activeTab = "tools"
    /\ edits < MaxEdits
    /\ \E text \in ParserTexts \ {input} :
          /\ input' = text
          /\ breakdown' = parsePacket(text)
    /\ edits' = edits + 1
    /\ UNCHANGED <<command, subCommand, params, generatedHex, effectPending,
                   isSending, activeTab, currentBuilderHex, sendTimers,
                   responseTimers, activityLog, clicks, sentPackets, rxCalls>>
    /\ CodecIdle

\* A row of the console is clicked: setParserInput(log.hex).
ClickLogEntry ==
    /\ activeTab = "tools"
    /\ edits < MaxEdits
    /\ \E k \in 1..Len(activityLog) :
          /\ activityLog[k].hex # input
          /\ input' = activityLog[k].hex
          /\ breakdown' = parsePacket(activityLog[k].hex)
    /\ edits' = edits + 1
    /\ UNCHANGED <<command, subCommand, params, generatedHex, effectPending,
                   isSending, activeTab, currentBuilderHex, sendTimers,
                   responseTimers, activityLog, clicks, sentPackets, rxCalls>>
    /\ CodecIdle

\* The Send button can be clicked: it is shown and not disabled.
SendEnabled == activeTab = "tools" /\ ~isSending

\* PacketBuilder.handleSend: isSending is set and a 400 ms timer is started
\* that holds the generatedHex of the render the click was made on.
ClickSend ==
    /\ SendEnabled
    /\ clicks < MaxSends
    /\ isSending' = TRUE
    /\ sendTimers' = Append(sendTimers, [hex |-> generatedHex, mounted |-> TRUE])
    /\ clicks' = clicks + 1
    /\ UNCHANGED <<command, subCommand, params, generatedHex, effectPending,
                   activeTab, currentBuilderHex, responseTimers, activityLog,
                   edits, sentPackets, rxCalls, input, breakdown>>
    /\ CodecIdle

\* The 400 ms timer fires: onSend(generatedHex), which is
\* App.handleSendPacket (the TX entry is logged and the 800 ms timer
\* started), then setIsSending(false), which has no effect once the
\* PacketBuilder that started the timer is unmounted.
SendTimerFires ==
    /\ sendTimers # <<>>
    /\ LET timer == Head(sendTimers)
       IN  /\ currentBuilderHex' = timer.hex
           /\ activityLog' = addLog(activityLog, "TX", timer.hex)
           /\ responseTimers' =
                 Append(responseTimers, [req |-> Len(sentPackets) + 1, hex |-> timer.hex])
           /\ sentPackets' = Append(sentPackets, timer.hex)
           /\ isSending' = IF timer.mounted THEN FALSE ELSE isSending
    /\ sendTimers' = Tail(sendTimers)
    /\ UNCHANGED <<command, subCommand, params, generatedHex, effectPending,
                   activeTab, clicks, edits, rxCalls, input, breakdown>>
    /\ CodecIdle

\* What the 800 ms callback does to the log: the RX entry when the
\* simulator answers.
LogResponse(prev, hex) ==
    LET responseHex == simulateResponse(hex)
    IN  IF responseHex # null THEN addLog(prev, "RX", responseHex) ELSE prev

\* ResponseTimerFires running the newest pending callback first.
ResponseTimerFiresNewest ==
    /\ responseTimers # <<>>
    /\ LET timer == responseTimers[Len(responseTimers)]
           responseHex == simulateResponse(timer.hex)
       IN  /\ activityLog' = LogResponse(activityLog, timer.hex)
           /\ rxCalls' = IF responseHex # null
                         THEN Append(rxCalls, [req |-> timer.req, hex |-> responseHex])
                         ELSE rxCalls
    /\ responseTimers' = SubSeq(responseTimers, 1, Len(responseTimers) - 1)
    /\ UNCHANGED <<command, subCommand, params, generatedHex, effectPending,
                   isSending, activeTab, currentBuilderHex, sendTimers, clicks,
                   edits, sentPackets, input, breakdown>>
    /\ CodecIdle

\* The oldest 800 ms timer fires.
ResponseTimerFires ==
    /\ responseTimers # <<>>
    /\ LET timer == Head(responseTimers)
           responseHex == simulateResponse(timer.hex)
       IN  /\ activityLog' = LogResponse(activityLog, timer.hex)
           /\ rxCalls' = IF responseHex # null
                         THEN Append(rxCalls, [req |-> timer.req, hex |-> responseHex])
                         ELSE rxCalls
    /\ responseTimers' = Tail(responseTimers)
    /\ UNCHANGED <<command, subCommand, params, generatedHex, effectPending,
                   isSending, activeTab, currentBuilderHex, sendTimers, clicks,
                   edits, sentPackets, input, breakdown>>
    /\ CodecIdle

\* The Clear Log button: setActivityLog([]).
ClearLog ==
    /\ activeTab = "tools"
    /\ activityLog' = <<>>
    /\ UNCHANGED <<command, subCommand, params, generatedHex, effectPending,
                   isSending, activeTab, currentBuilderHex, sendTimers,
                   responseTimers, clicks, edits, sentPackets, rxCalls, input,
                   breakdown>>
    /\ CodecIdle

\* The Deployment or the AI tab is chosen on the tools tab: PacketBuilder
\* is unmounted, its state and its scheduled effect are dropped, its
\* pending timer stays.
LeaveTools ==
    /\ activeTab = "tools"
    /\ \E tab \in OtherTabs : activeTab' = tab
    /\ effectPending' = FALSE
    /\ sendTimers' = [k \in 1..Len(sendTimers) |-> [sendTimers[k] EXCEPT !.mounted = FALSE]]
    /\ UNCHANGED <<command, subCommand, params, generatedHex, isSending,
                   currentBuilderHex, responseTimers, activityLog, clicks, edits,
                   sentPackets, rxCalls, input, breakdown>>
    /\ CodecIdle

\* The other of the Deployment and AI tabs is chosen: setActiveTab.
SwitchTab ==
    /\ activeTab # "tools"
    /\ \E tab \in OtherTabs \ {activeTab} : activeTab' = tab
    /\ UNCHANGED <<command, subCommand, params, generatedHex, effectPending,
                   isSending, currentBuilderHex, sendTimers, responseTimers,
                   activityLog, clicks, edits, sentPackets, rxCalls, input,
                   breakdown>>
    /\ CodecIdle

\* The tools tab is chosen again: a new PacketBuilder is mounted, at its
\* first commit.
EnterTools ==
    /\ activeTab # "tools"
    /\ activeTab' = "tools"
    /\ command' = CommandCode.OUTLET_NAME
    /\ subCommand' = SubCommand.GET
    /\ params' = <<"0", "1">>
    /\ generatedHex' = <<>>
    /\ effectPending' = TRUE
    /\ isSending' = FALSE
    /\ UNCHANGED <<currentBuilderHex, sendTimers, responseTimers, activityLog,
                   clicks, edits, sentPackets, rxCalls, input, breakdown>>
    /\ CodecIdle

\* The events of the interface: the form and the parser are edited, the
\* effect runs, packets are sent, the timers fire, the log is cleared and
\* read, the tabs are switched.
AppNext ==
    \/ SelectCommand
    \/ SelectSubCommand
    \/ TypeParams
    \/ BuilderEffect
    \/ TypeParserInput
    \/ ClickLogEntry
    \/ ClickSend
    \/ SendTimerFires
    \/ ResponseTimerFires
    \/ ClearLog
    \/ LeaveTools
    \/ SwitchTab
    \/ EnterTools

\* The oldest 400 ms timer leaves the timer queue: under AppNext this is
\* exactly a SendTimerFires step.
SendTimerDue ==
    /\ sendTimers # <<>>
    /\ sendTimers' = Tail(sendTimers)

\* The oldest 800 ms timer leaves the timer queue: under AppNext this is
\* exactly a ResponseTimerFires step.
ResponseTimerDue ==
    /\ responseTimers # <<>>
    /\ responseTimers' = Tail(responseTimers)

\* A timer that is set fires: the event loop runs every callback that is due.
AppSpec ==
    /\ AppInit
    /\ [][AppNext]_vars
    /\ WF_sendTimers(SendTimerDue)
    /\ WF_responseTimers(ResponseTimerDue)

----------------------------------------------------------------------------
(* Properties *)

\* The states in which breakdown is parsePacket(input).
Parsed == op \in {"parsed", "typed", "edited"}

Labels(bd) == [i \in 1..Len(bd) |-> bd[i].label]

\* The bytes listed between the brackets of a Data Envelope description.
UnescapedPayload(entry) ==
    hexToBytes(SubSeq(entry.description, 2, Len(entry.description) - 1))

IsByte(x) == x \in 0..255

\* The number of protected bytes among the first k bytes of data.
ProtectedBefore(data, k) ==
    Cardinality({j \in 1..k : data[j] \in {254, 255, 253}})

\* C1 as stated: for every envelope of at most 255 bytes,
\* parsePacket(buildPacket(envelope)) is a breakdown whose Data Envelope
\* entry lists exactly the envelope as its unescaped payload.
C1_Original ==
    op = "parsed" =>
        /\ Len(breakdown) >= 3
        /\ breakdown[3].label = "Data Envelope"
        /\ UnescapedPayload(breakdown[3]) = dataEnvelope

\* C1 (amended): for every envelope of 1 to 255 bytes,
\* parsePacket(buildPacket(envelope)) holds a Data Envelope entry whose
\* unescaped payload is exactly the envelope; the frame of the empty
\* envelope has 4 bytes and its breakdown is empty.
C1_RoundTrip ==
    op = "parsed" =>
        IF Len(dataEnvelope) = 0 THEN breakdown = <<>>
        ELSE /\ Len(breakdown) >= 3
             /\ breakdown[3].label = "Data Envelope"
             /\ UnescapedPayload(breakdown[3]) = dataEnvelope

C1_Witness ==
    /\ op = "parsed"
    /\ dataEnvelope = <<253, 2, 255>>
    /\ breakdown[3].hex = bytesToHex(<<253, 2, 2, 253, 0>>)
    /\ UnescapedPayload(breakdown[3]) = <<253, 2, 255>>

\* C2: unescapeData(escapeData(s)).unescaped equals s, for every single
\* byte 0..255 and for every byte sequence s.
C2_EscapeUnescape ==
    op = "roundtrip" => unesc.unescaped = dataEnvelope

C2_Witness ==
    /\ op = "roundtrip"
    /\ dataEnvelope = <<253>>
    /\ escaped = <<253, 2>>
    /\ unesc.unescaped = <<253>>

\* C3: the bytes of buildPacket(envelope) are 0xFE, the number of
\* unescaped envelope bytes, the escaped envelope, the checksum of the
\* unescaped envelope, 0xFF.
C3_FrameLayout ==
    op = "built" =>
        LET bytes == hexToBytes(packet)
            n == Len(bytes)
            count == Len(dataEnvelope)
        IN  /\ n = count + ProtectedBefore(dataEnvelope, count) + 4
            /\ bytes[1] = 254
            /\ bytes[2] = count
            /\ SubSeq(bytes, 3, n - 2) = escapeData(dataEnvelope)
            /\ bytes[n - 1] = (254 + count + SumBytes(dataEnvelope, 1, count)) % 128
            /\ bytes[n] = 255

C3_Witness ==
    /\ op = "built"
    /\ dataEnvelope = <<0, 254, 2>>
    /\ hexToBytes(packet) = <<254, 3, 0, 253, 1, 2, 1, 255>>

\* C4: calculateChecksum(header, length, envelope) is
\* (header + length + sum of the envelope bytes) mod 128, in 0..127.
C4_Checksum ==
    op = "checksum" =>
        /\ checksum = (checksumArgs[1] + checksumArgs[2]
                         + SumBytes(dataEnvelope, 1, Len(dataEnvelope))) % 128
        /\ checksum \in 0..127

C4_Witness ==
    /\ op = "checksum"
    /\ checksumArgs = <<254, 3>>
    /\ dataEnvelope = <<0, 33, 2>>
    /\ checksum = 36

\* C5: escapeData handles the input bytes in order: a byte in
\* {0xFE, 0xFF, 0xFD} becomes 0xFD followed by its complement 255 - byte,
\* any other byte is copied; so the output has one more byte per protected
\* input byte and is never shorter than the input.
C5_EscapeMapping ==
    op = "escaped" =>
        LET count == Len(dataEnvelope)
        IN  /\ Len(escaped) = count + ProtectedBefore(dataEnvelope, count)
            /\ Len(escaped) >= count
            /\ \A i \in 1..count :
                  LET at == i + ProtectedBefore(dataEnvelope, i - 1)
                  IN  IF dataEnvelope[i] \in {254, 255, 253}
                      THEN /\ escaped[at] = 253
                           /\ escaped[at + 1] = 255 - dataEnvelope[i]
                      ELSE escaped[at] = dataEnvelope[i]

C5_Witness ==
    /\ op = "escaped"
    /\ dataEnvelope = <<33, 255, 253>>
    /\ escaped = <<33, 253, 0, 253, 2>>

\* C6: the output of escapeData holds no 0xFE and no 0xFF, and each 0xFD
\* in it is followed at once by 0x01, 0x00 or 0x02.
C6_NoProtectedLiteral ==
    op = "escaped" =>
        \A i \in 1..Len(escaped) :
            /\ escaped[i] \notin {254, 255}
            /\ escaped[i] = 253 => (i < Len(escaped) /\ escaped[i + 1] \in {1, 0, 2})

C6_Witness ==
    /\ op = "escaped"
    /\ dataEnvelope = <<254, 253, 255>>
    /\ escaped = <<253, 1, 253, 2, 253, 0>>

\* The number of consecutive 0xFD bytes of data that end at position j.
EscapeRun(data, j) ==
    LET others == {m \in 1..j : data[m] # 253}
    IN  j - (IF others = {} THEN 0 ELSE CHOOSE m \in others : \A o \in others : o <= m)

\* The last byte of data is an 0xFD that no escape sequence consumes: the
\* run of 0xFD bytes before it pairs up completely.
TrailingEscape(data) ==
    /\ Len(data) >= 1
    /\ data[Len(data)] = 253
    /\ EscapeRun(data, Len(data)) % 2 = 1

\* C7: unescapeData([0xFD]) is [0xFD] with marker false, and an 0xFD that
\* ends the input without being the second byte of an escape sequence is
\* emitted literally, as the last output byte, with marker false.
C7_TrailingEscape ==
    op = "unescaped" =>
        /\ dataEnvelope = <<253>> =>
              unesc = [unescaped |-> <<253>>, breakdown |-> <<FALSE>>]
        /\ TrailingEscape(dataEnvelope) =>
              LET m == Len(unesc.unescaped)
              IN  /\ m >= 1
                  /\ Len(unesc.breakdown) = m
                  /\ unesc.unescaped[m] = 253
                  /\ unesc.breakdown[m] = FALSE

C7_Witness ==
    /\ op = "unescaped"
    /\ dataEnvelope = <<253, 253, 253>>
    /\ unesc = [unescaped |-> <<2, 253>>, breakdown |-> <<TRUE, FALSE>>]

\* C8: parsePacket returns a breakdown for every input, and the breakdown
\* is empty exactly when the input holds fewer than 5 bytes.
C8_EmptyIffShort ==
    Parsed =>
        /\ breakdown = <<>> <=> Len(hexToBytes(input)) < 5
        /\ \A i \in 1..Len(breakdown) :
              DOMAIN breakdown[i] = {"label", "hex", "description"}

C8_Witness ==
    /\ op = "typed"
    /\ Len(hexToBytes(input)) = 5
    /\ Len(hexToBytes(packet)) > 5
    /\ Len(breakdown) = 5

\* The unescaped envelope of the text under inspection.
InputUnescaped == unescapeData(EnvelopeWithEscapes(hexToBytes(input))).unescaped

\* C9 as stated: every input of at least 5 bytes yields Header, Length,
\* Data Envelope, Destination, Command, Subcommand/Param (when a third
\* unescaped byte exists), Checksum, Tail, in this order.
C9_Original ==
    (Parsed /\ Len(hexToBytes(input)) >= 5) =>
        Labels(breakdown) =
            <<"Header", "Length", "Data Envelope", "Destination", "Command">>
              \o (IF Len(InputUnescaped) >= 3 THEN <<"Subcommand/Param">> ELSE <<>>)
              \o <<"Checksum", "Tail">>

\* C9 (amended): every input of at least 5 bytes yields Header, Length,
\* Data Envelope, then Destination (first unescaped byte) and Command
\* (second unescaped byte) when the envelope unescapes to at least 2
\* bytes, then Subcommand/Param (third unescaped byte) when it unescapes
\* to at least 3 bytes, then Checksum, Tail; an envelope of one unescaped
\* byte yields Header, Length, Data Envelope, Checksum, Tail.
C9_EntryOrder ==
    (Parsed /\ Len(hexToBytes(input)) >= 5) =>
        LET u == InputUnescaped
        IN  /\ Labels(breakdown) =
                  <<"Header", "Length", "Data Envelope">>
                    \o (IF Len(u) >= 2 THEN <<"Destination", "Command">> ELSE <<>>)
                    \o (IF Len(u) >= 3 THEN <<"Subcommand/Param">> ELSE <<>>)
                    \o <<"Checksum", "Tail">>
            /\ Len(u) >= 2 => /\ breakdown[4].hex = bytesToHex(<<u[1]>>)
                              /\ breakdown[5].hex = bytesToHex(<<u[2]>>)
            /\ Len(u) >= 3 => breakdown[6].hex = bytesToHex(<<u[3]>>)
            /\ Len(u) = 1 => Len(breakdown) = 5

C9_Witness ==
    /\ op = "parsed"
    /\ dataEnvelope = <<0, 33>>
    /\ Labels(breakdown) = <<"Header", "Length", "Data Envelope", "Destination",
                             "Command", "Checksum", "Tail">>

\* C10: overwriting the first byte of a frame the encoder produced (at
\* least 5 bytes) with a value other than 0xFE makes the Header entry read
\* "INVALID Header" and leaves the number, labels and order of the entries
\* as they were; overwriting the checksum byte or the tail byte leaves the
\* label sequence as it was.
C10_MismatchKeepsFields ==
    (op = "edited" /\ Len(dataEnvelope) >= 1) =>
        LET n == Len(hexToBytes(input))
        IN  /\ edited[1] = 1 =>
                  /\ edited[2] # 254
                  /\ breakdown[1].label = "Header"
                  /\ breakdown[1].description = <<"INVALID Header">>
                  /\ prevBreakdown[1].description = <<"Valid Start Character (0xFE)">>
                  /\ Len(breakdown) = Len(prevBreakdown)
                  /\ Labels(breakdown) = Labels(prevBreakdown)
            /\ edited[1] \in {n - 1, n} =>
                  Labels(breakdown) = Labels(prevBreakdown)

C10_Witness ==
    /\ op = "edited"
    /\ dataEnvelope = <<0, 33, 2>>
    /\ edited = <<1, 128>>
    /\ breakdown[1].description = <<"INVALID Header">>
    /\ Len(breakdown) = 8
    /\ Labels(breakdown) = Labels(prevBreakdown)

\* The Checksum entry of the breakdown: the last but one.
ChecksumOf(bd) == bd[Len(bd) - 1]

\* The checksum recomputed from the received header byte, the declared
\* length byte and the unescaped envelope of the text under inspection.
Recomputed ==
    LET bytes == hexToBytes(input)
    IN  (bytes[1] + bytes[2] + SumBytes(InputUnescaped, 1, Len(InputUnescaped))) % 128

\* C11: for every input of at least 5 bytes the Checksum entry shows the
\* last-but-one byte and reads "Valid Checksum" if and only if that byte
\* equals the checksum recomputed from the received header byte, the
\* declared length byte and the unescaped envelope; otherwise it states the
\* expected value in upper-case hex. The Length entry shows the declared
\* length whatever the number of envelope bytes is.
C11_ChecksumEntry ==
    (Parsed /\ Len(hexToBytes(input)) >= 5) =>
        LET bytes == hexToBytes(input)
            cksum == bytes[Len(bytes) - 1]
            entry == ChecksumOf(breakdown)
        IN  /\ entry.label = "Checksum"
            /\ entry.hex = bytesToHex(<<cksum>>)
            /\ entry.description = <<"Valid Checksum">> <=> cksum = Recomputed
            /\ cksum # Recomputed =>
                  entry.description =
                      <<"Invalid! Expected 0x">> \o toUpperCase(toString16(Recomputed))
            /\ breakdown[2].description =
                  <<"Payload Data Length: ">> \o toString10(bytes[2]) \o <<" bytes">>

\* The length byte of FE 03 00 21 02 24 FF overwritten with 0x80: the
\* Length entry reports 128 bytes, the three envelope bytes are decoded as
\* before, and the checksum recomputed from the declared length is 0x21.
C11_Witness ==
    /\ op = "edited"
    /\ dataEnvelope = <<0, 33, 2>>
    /\ edited = <<2, 128>>
    /\ Len(InputUnescaped) = 3
    /\ breakdown[2].description = <<"Payload Data Length: ", "1", "2", "8", " bytes">>
    /\ ChecksumOf(breakdown).hex = <<"2", "4">>
    /\ ChecksumOf(breakdown).description = <<"Invalid! Expected 0x", "2", "1">>

\* C12: every frame buildPacket makes from an envelope of 3 to 255 bytes
\* decodes as fully valid: Header valid, Length the envelope byte count,
\* Destination, Command and Subcommand/Param showing the first three
\* envelope bytes, Checksum valid, Tail valid. FE 03 00 21 02 24 FF gives
\* Length 3, Destination 0x00 (broadcast), Command OUTLET_NAME (0x21),
\* Subcommand GET, Checksum 0x24; FE 04 00 20 02 01 25 FF gives Command
\* POWER_OUTLETS (0x20), Subcommand GET, Checksum 0x25.
C12_EncodedFrameValid ==
    (op = "parsed" /\ Len(dataEnvelope) >= 3) =>
        LET n == Len(breakdown)
        IN  /\ n = 8
            /\ breakdown[1].description = <<"Valid Start Character (0xFE)">>
            /\ breakdown[2].hex = bytesToHex(<<Len(dataEnvelope)>>)
            /\ breakdown[2].description =
                  <<"Payload Data Length: ">> \o toString10(Len(dataEnvelope)) \o <<" bytes">>
            /\ breakdown[4].label = "Destination"
            /\ breakdown[4].hex = bytesToHex(<<dataEnvelope[1]>>)
            /\ breakdown[5].label = "Command"
            /\ breakdown[5].hex = bytesToHex(<<dataEnvelope[2]>>)
            /\ breakdown[6].label = "Subcommand/Param"
            /\ breakdown[6].hex = bytesToHex(<<dataEnvelope[3]>>)
            /\ breakdown[7].description = <<"Valid Checksum">>
            /\ breakdown[8].description = <<"Valid End Character (0xFF)">>
            /\ dataEnvelope = <<0, 33, 2>> =>
                  /\ join(input, "") = "FE 03 00 21 02 24 FF"
                  /\ breakdown[2].description = <<"Payload Data Length: ", "3", " bytes">>
                  /\ breakdown[4].hex = <<"0", "0">>
                  /\ breakdown[4].description = <<"Broadcast/Device">>
                  /\ breakdown[5].description = <<"OUTLET_NAME", " (0x", "2", "1", ")">>
                  /\ breakdown[6].description = <<"GET">>
                  /\ breakdown[7].hex = <<"2", "4">>
            /\ dataEnvelope = <<0, 32, 2, 1>> =>
                  /\ join(input, "") = "FE 04 00 20 02 01 25 FF"
                  /\ breakdown[4].hex = <<"0", "0">>
                  /\ breakdown[5].description = <<"POWER_OUTLETS", " (0x", "2", "0", ")">>
                  /\ breakdown[6].description = <<"GET">>
                  /\ breakdown[7].hex = <<"2", "5">>

\* The second scenario, decoded; its fourth envelope byte is not shown.
C12_Witness ==
    /\ op = "parsed"
    /\ dataEnvelope = <<0, 32, 2, 1>>
    /\ hexToBytes(input) = <<254, 4, 0, 32, 2, 1, 37, 255>>
    /\ Len(breakdown) = 8
    /\ breakdown[7].description = <<"Valid Checksum">>

\* The names an enum registers for a code (none, or one).
RegisteredNames(enumObject, code) ==
    {name \in DOMAIN enumObject : enumObject[name] = code}

\* The name a Command or Subcommand/Param description starts with.
NameIn(entry) == entry.description[1]

\* C13: for every byte in the command position the Command entry names
\* the command: the registered name of a registered code, "Unknown
\* Command" otherwise; for every byte in the subcommand position the
\* Subcommand/Param entry reads the registered name or "Param/Data".
\* The decoder returns a breakdown for every code (no lookup fails).
C13_LookupNeverFails ==
    (Parsed /\ Len(hexToBytes(input)) >= 5 /\ Len(InputUnescaped) >= 2) =>
        LET u == InputUnescaped
            cmdNames == RegisteredNames(CommandCode, u[2])
        IN  /\ breakdown[5].label = "Command"
            /\ IF cmdNames = {} THEN NameIn(breakdown[5]) = "Unknown Command"
               ELSE NameIn(breakdown[5]) \in cmdNames
            /\ Len(u) >= 3 =>
                  LET subNames == RegisteredNames(SubCommand, u[3])
                  IN  /\ breakdown[6].label = "Subcommand/Param"
                      /\ IF subNames = {} THEN NameIn(breakdown[6]) = "Param/Data"
                         ELSE NameIn(breakdown[6]) \in subNames

\* An unregistered command code followed by an unregistered subcommand.
C13_Witness ==
    /\ op = "parsed"
    /\ dataEnvelope = <<0, 253, 253>>
    /\ breakdown[5].description = <<"Unknown Command", " (0x", "f", "d", ")">>
    /\ breakdown[6].description = <<"Param/Data">>

\* The command codes of the sensor and threshold ranges.
SensorCodes == 80..97
ThresholdCodes == 112..119

\* C14 as stated: every command code in 0x50..0x61 (sensors) and in
\* 0x70..0x77 (thresholds) resolves to a name other than the fallback
\* "Unknown Command".
C14_Original ==
    (/\ Parsed /\ Len(hexToBytes(input)) >= 5 /\ Len(InputUnescaped) >= 2
     /\ InputUnescaped[2] \in SensorCodes \cup ThresholdCodes) =>
        NameIn(breakdown[5]) # "Unknown Command"

\* The request's command and subcommand: bytes 2 and 3 of the envelope
\* the sent packet was built from.
RequestCommand == At(dataEnvelope, 2)
RequestSub == At(dataEnvelope, 3)

\* The envelope a response frame decodes to.
DecodedResponse == unescapeData(EnvelopeWithEscapes(hexToBytes(response))).unescaped

\* The char codes of "Outlet 1".
OutletNameBytes == <<79, 117, 116, 108, 101, 116, 32, 49>>

\* C15 as stated: to an OUTLET_NAME request with subcommand GET
\* simulateResponse answers the envelope [0x00, OUTLET_NAME, RESPONSE,
\* index, ...ASCII("Outlet 1")]; to an OUTLET_NAME request with any other
\* subcommand it returns nothing.
C15_Original ==
    (op = "sent" /\ Len(dataEnvelope) >= 3 /\ RequestCommand = CommandCode.OUTLET_NAME) =>
        IF RequestSub = SubCommand.GET
        THEN /\ response # null
             /\ Len(DecodedResponse) = 12
             /\ SubSeq(DecodedResponse, 1, 3) = <<0, 33, 16>>
             /\ SubSeq(DecodedResponse, 5, 12) = OutletNameBytes
        ELSE response = null

\* C16 as stated: in the answers to POWER_OUTLETS and to OUTLET_NAME GET
\* the fourth byte of the response envelope is the request's fourth
\* unescaped byte whenever the request has one (0x00..0xFF), and 0x01
\* only when it has none; the POWER_OUTLETS answer is
\* [0x00, POWER_OUTLETS, RESPONSE, index, 0x01].
C16_Original ==
    (/\ op = "sent" /\ Len(dataEnvelope) >= 3
     /\ \/ RequestCommand = CommandCode.POWER_OUTLETS
        \/ RequestCommand = CommandCode.OUTLET_NAME /\ RequestSub = SubCommand.GET) =>
        LET index == IF Len(dataEnvelope) >= 4 THEN dataEnvelope[4] ELSE 1
        IN  /\ response # null
            /\ DecodedResponse[4] = index
            /\ RequestCommand = CommandCode.POWER_OUTLETS =>
                  DecodedResponse = <<0, 32, 16, index, 1>>

\* C17 as stated: every PING request with at least 3 unescaped envelope
\* bytes is answered [0x00, PING, RESPONSE], and every LOGIN request is
\* answered [0x00, LOGIN, RESPONSE, 0x01].
C17_Original ==
    op = "sent" =>
        /\ (Len(dataEnvelope) >= 3 /\ RequestCommand = CommandCode.PING) =>
              response # null /\ DecodedResponse = <<0, 1, 16>>
        /\ RequestCommand = CommandCode.LOGIN =>
              response # null /\ DecodedResponse = <<0, 2, 16, 1>>

\* C17 (amended): every PING request with at least 3 unescaped envelope
\* bytes is answered by a frame that decodes to exactly
\* [0x00, PING, RESPONSE], and every LOGIN request with at least 3
\* unescaped envelope bytes by one that decodes to exactly
\* [0x00, LOGIN, RESPONSE, 0x01], whatever the destination, subcommand and
\* parameter bytes; a LOGIN request of 2 envelope bytes gets no response.
C17_PingLogin ==
    op = "sent" =>
        /\ (Len(dataEnvelope) >= 3 /\ RequestCommand = CommandCode.PING) =>
              response # null /\ DecodedResponse = <<0, 1, 16>>
        /\ (Len(dataEnvelope) >= 3 /\ RequestCommand = CommandCode.LOGIN) =>
              response # null /\ DecodedResponse = <<0, 2, 16, 1>>
        /\ (Len(dataEnvelope) = 2 /\ RequestCommand = CommandCode.LOGIN) =>
              response = null

\* A LOGIN request to destination 5 with subcommand RESPONSE and the
\* parameter 0xFD.
C17_Witness ==
    /\ op = "sent"
    /\ dataEnvelope = <<5, 2, 16, 253>>
    /\ hexToBytes(response) = <<254, 4, 0, 2, 16, 1, 21, 255>>

\* C18: simulateResponse returns nothing for every request whose command
\* code is none of LOGIN, OUTLET_NAME, POWER_OUTLETS, PING, whether the
\* code is unregistered (0x99) or registered but unhandled (0x22, 0x37).
C18_UnhandledCommands ==
    (op = "sent" /\ Len(dataEnvelope) >= 2
     /\ RequestCommand \notin {CommandCode.LOGIN, CommandCode.OUTLET_NAME,
                               CommandCode.POWER_OUTLETS, CommandCode.PING}) =>
        response = null

\* An EPO request with three envelope bytes.
C18_Witness ==
    /\ op = "sent"
    /\ dataEnvelope = <<0, 55, 2>>
    /\ Len(hexToBytes(packet)) = 7
    /\ response = null

\* C19: simulateResponse returns nothing whenever the request frame has
\* fewer than 5 bytes or its envelope unescapes to fewer than 3 bytes,
\* whatever the command code.
C19_ShortRequests ==
    (/\ op = "sent"
     /\ \/ Len(hexToBytes(packet)) < 5
        \/ Len(unescapeData(EnvelopeWithEscapes(hexToBytes(packet))).unescaped) < 3) =>
        response = null

\* The two-byte envelope [0x00, PING].
C19_Witness ==
    /\ op = "sent"
    /\ dataEnvelope = <<0, 1>>
    /\ hexToBytes(packet) = <<254, 2, 0, 1, 1, 255>>
    /\ response = null

\* C20: every result of simulateResponse other than null is a frame of
\* the encoder: it starts with 0xFE and ends with 0xFF, its length byte is
\* the byte count of the response envelope it decodes to, its checksum is
\* the one of that envelope, it is the text buildPacket gives for that
\* envelope, and the envelope starts with 0x00, the request's command
\* code and RESPONSE (0x10).
C20_ResponseIsFrame ==
    (op = "sent" /\ response # null) =>
        LET bytes == hexToBytes(response)
            n == Len(bytes)
            u == DecodedResponse
        IN  /\ n >= 7
            /\ bytes[1] = 254
            /\ bytes[n] = 255
            /\ bytes[2] = Len(u)
            /\ bytes[n - 1] = (254 + Len(u) + SumBytes(u, 1, Len(u))) % 128
            /\ response = buildPacket(u)
            /\ Len(u) >= 3
            /\ u[1] = 0
            /\ u[2] = RequestCommand
            /\ u[3] = 16

\* A POWER_OUTLETS request for index 0xFF: the index is escaped in the
\* response frame.
C20_Witness ==
    /\ op = "sent"
    /\ dataEnvelope = <<0, 32, 1, 255>>
    /\ hexToBytes(response) = <<254, 5, 0, 32, 16, 253, 0, 1, 51, 255>>
    /\ DecodedResponse = <<0, 32, 16, 255, 1>>

\* The hex digits that remain of a text once every other character is
\* stripped.
HexDigitsOf(text) == SelectSeq(text, IsHexChar)

\* C22 as stated: hexToBytes strips every non-hex character, and n
\* remaining hex digits yield exactly floor(n/2) bytes, byte k formed from
\* the k-th complete pair of digits (a final single digit is dropped).
C22_Original ==
    op = "typed" =>
        LET digits == HexDigitsOf(input)
            bytes == hexToBytes(input)
        IN  /\ Len(bytes) = Len(digits) \div 2
            /\ \A k \in 1..(Len(digits) \div 2) :
                  bytes[k] = 16 * HexValue(digits[2 * k - 1]) + HexValue(digits[2 * k])

\* The bytes handed to the last call of unescapeData.
UnescapeInput == IF op = "roundtrip" THEN escaped ELSE dataEnvelope

\* The number of markers set among the first k.
MarkedBefore(markers, k) == Cardinality({j \in 1..k : markers[j]})

\* C24: unescapeData returns a marker sequence as long as the unescaped
\* bytes. With p the input position output byte i starts at (i plus the
\* markers set before i), marker i is true exactly when input byte p is
\* 0xFD followed by a byte, and output byte i is then the complement of
\* that byte; it is false exactly when input byte p was copied. The input
\* has as many bytes as the output plus the markers set.
C24_EscapeMarkers ==
    op \in {"unescaped", "roundtrip"} =>
        LET data == UnescapeInput
            out == unesc.unescaped
            markers == unesc.breakdown
        IN  /\ Len(markers) = Len(out)
            /\ Len(data) = Len(out) + MarkedBefore(markers, Len(markers))
            /\ \A i \in 1..Len(out) :
                  LET p == i + MarkedBefore(markers, i - 1)
                  IN  /\ markers[i] \in BOOLEAN
                      /\ markers[i] <=> (data[p] = 253 /\ p < Len(data))
                      /\ markers[i] => out[i] = 255 - data[p + 1]
                      /\ ~markers[i] => out[i] = data[p]

\* An escape sequence followed by an ESCAPE with no byte after it.
C24_Witness ==
    /\ op = "unescaped"
    /\ dataEnvelope = <<253, 2, 253>>
    /\ unesc.unescaped = <<253, 253>>
    /\ unesc.breakdown = <<TRUE, FALSE>>

\* C25 as stated: in every frame buildPacket makes from an envelope of 1
\* to 255 bytes in 0..255, the byte 0xFE occurs only at index 0 and the
\* byte 0xFF only at the last index: no length byte, escaped envelope byte
\* or checksum byte is 0xFE or 0xFF.
C25_Original ==
    (op = "built" /\ Len(dataEnvelope) \in 1..255) =>
        LET bytes == hexToBytes(packet)
            n == Len(bytes)
        IN  /\ bytes[1] = 254
            /\ bytes[n] = 255
            /\ \A k \in 2..(n - 1) : bytes[k] \notin {254, 255}

\* C26: simulateResponse does not validate the frame: a request of at
\* least 5 bytes whose header, length, checksum or tail byte was
\* overwritten gets the response of the request as it was built.
C26_NoFrameValidation ==
    (op = "answered" /\ Len(hexToBytes(input)) >= 5) =>
        /\ hexToBytes(input) # hexToBytes(packet)
        /\ EnvelopeWithEscapes(hexToBytes(input)) = EnvelopeWithEscapes(hexToBytes(packet))
        /\ response = simulateResponse(packet)

\* The OUTLET_NAME GET request FE 03 00 21 02 24 FF with the checksum
\* byte overwritten by 0x80 is answered with the outlet's name.
C26_Witness ==
    /\ op = "answered"
    /\ dataEnvelope = <<0, 33, 2>>
    /\ edited = <<6, 128>>
    /\ breakdown[7].description = <<"Invalid! Expected 0x", "2", "4">>
    /\ response # null
    /\ DecodedResponse = <<0, 33, 16, 1>> \o OutletNameBytes

\* The positions at which two sequences of the same length differ.
DiffPositions(a, b) == {k \in 1..Len(a) : a[k] # b[k]}

\* The last edit replaced exactly one unescaped envelope byte of the built
\* frame by a different value and left header, length, checksum and tail
\* as they were.
OneEnvelopeByteReplaced ==
    /\ op = "edited"
    /\ edited[1] \in 3..(Len(hexToBytes(input)) - 2)
    /\ Len(InputUnescaped) = Len(dataEnvelope)
    /\ Cardinality(DiffPositions(InputUnescaped, dataEnvelope)) = 1

\* C27 as stated: when one unescaped envelope byte of a valid frame is
\* replaced by any different byte value, parsePacket reports the checksum
\* as invalid.
C27_Original ==
    OneEnvelopeByteReplaced =>
        ChecksumOf(breakdown).description # <<"Valid Checksum">>

\* C23 as stated: every element of a frame produced by buildPacket is a
\* value in 0..255 rendered as exactly two hex digits, so the packet text
\* is groups of two digits separated by single spaces, also when an
\* element of the envelope lies outside 0..255.
C23_Original ==
    \A k \in 1..Len(generatedHex) :
        IF k % 3 = 0 THEN generatedHex[k] = " " ELSE IsHexChar(generatedHex[k])

\* C28 as stated: after any sequence of Send clicks, timer firings and
\* Clear Log clicks, every RX entry of the activity log is preceded in the
\* log by the TX entry of the request that produced it.
C28_Original ==
    \A j \in 1..Len(activityLog) :
        activityLog[j].direction = "RX" =>
            \E i \in 1..(j - 1) :
                /\ activityLog[i].direction = "TX"
                /\ simulateResponse(activityLog[i].hex) = activityLog[j].hex

\* The last entry of a log.
LastEntry(log) == log[Len(log)]

\* The step appends one entry of the given direction to the activity log.
Logged(direction) ==
    /\ Len(activityLog') = Len(activityLog) + 1
    /\ SubSeq(activityLog', 1, Len(activityLog)) = activityLog
    /\ LastEntry(activityLog').direction = direction

\* The step passes a packet to handleSendPacket.
PacketSent == Len(sentPackets') = Len(sentPackets) + 1

\* The RX entries logged so far answer the packets sent, each at most
\* once and in the order the packets were sent; none is logged for a packet
\* the simulator does not answer.
RxInOrder ==
    /\ \A i \in 1..Len(rxCalls) :
          /\ rxCalls[i].req \in 1..Len(sentPackets)
          /\ simulateResponse(sentPackets[rxCalls[i].req]) # null
          /\ rxCalls[i].hex = simulateResponse(sentPackets[rxCalls[i].req])
    /\ \A i, j \in 1..Len(rxCalls) : i < j => rxCalls[i].req < rxCalls[j].req

\* The k-th packet sent has had its RX entry logged.
Answered(k) == \E i \in 1..Len(rxCalls) : rxCalls[i].req = k

\* C29: every packet passed to handleSendPacket gets its TX entry in the
\* same step; given that the timers fire, a packet the simulator answers
\* eventually gets exactly one RX entry holding simulateResponse(packet),
\* a packet it does not answer never gets one, and the RX entries of
\* packets in flight together are logged in the order the packets were sent.
C29_TxThenRx ==
    /\ [][PacketSent =>
             /\ Logged("TX")
             /\ LastEntry(activityLog').hex = LastEntry(sentPackets')]_vars
    /\ [][Logged("RX") <=> Len(rxCalls') = Len(rxCalls) + 1]_vars
    /\ [][Logged("RX") => LastEntry(activityLog').hex = LastEntry(rxCalls').hex]_vars
    /\ []RxInOrder
    /\ \A k \in 1..MaxSends :
          (Len(sentPackets) >= k /\ simulateResponse(sentPackets[k]) # null)
              ~> Answered(k)

\* Two different packets were in flight together and were answered in the
\* order they were sent.
C29_Witness ==
    /\ Len(sentPackets) = 2
    /\ responseTimers = <<>>
    /\ sentPackets[1] # sentPackets[2]
    /\ [i \in 1..Len(activityLog) |-> activityLog[i].direction]
          = <<"TX", "TX", "RX", "RX">>
    /\ activityLog[3].hex = simulateResponse(sentPackets[1])
    /\ activityLog[4].hex = simulateResponse(sentPackets[2])
    /\ activityLog[3].hex # activityLog[4].hex

\* C30: PacketBuilder has at most one transmission pending at any time, and
\* isSending is true (the Send button disabled) exactly while the 400 ms
\* timer of an accepted click is pending, so that no second transmission can
\* start before the first one has called onSend.
C30_Original ==
    /\ Len(sendTimers) <= 1
    /\ isSending <=> sendTimers # <<>>

====
